---- MODULE Spec2Model ----
(***************************************************************************)
(* A model of MilvusCustomDataStore                                        *)
(* (src/datastore/providers/milvus_custom_datastore.py): the batch upsert, *)
(* the metadata filter compiler, the query fan-out with its result         *)
(* reassembly, and delete.  The Milvus server is the environment: its      *)
(* collection is the only persistent state.                                *)
(***************************************************************************)
EXTENDS Integers, Sequences, FiniteSets, TLC

VARIABLES
    milvus,  \* the server: has_collection, schema, indexes, loaded, rows, next_pk
    self,    \* the datastore object: index_params
    pc,      \* "ready", or "gather" while _query awaits asyncio.gather
    phase,   \* the scenario's position: "new", "loaded", "done"
    op,      \* the last (or running) operation: its name, arguments, return value
    calls,   \* the store calls the operation made, in the order it made them
    upserted \* history: the chunks whose rows the store has taken, in order

vars == <<milvus, self, pc, phase, op, calls, upserted>>

----------------------------------------------------------------------------
(* Python values.  The code is dynamically typed (None, str, int, list in  *)
(* the same slot), so every value carries its type.                        *)

PyNone == [t |-> "None"]
PyStr(s) == [t |-> "str", v |-> s]
PyInt(i) == [t |-> "int", v |-> i]
PyList(s) == [t |-> "list", v |-> s]
PyTrue == [t |-> "bool", v |-> TRUE]
PyFalse == [t |-> "bool", v |-> FALSE]
PyEnum(name, value) == [t |-> "enum", name |-> name, v |-> value]
PyRaise(e) == [t |-> "raise", exc |-> e]

\* str(x): of an enum member its qualified name, of a string itself
PyToStr(x) == IF x.t = "enum" THEN "Source." \o x.name ELSE x.v

\* Python truthiness: None, "", 0 and [] are false.
Truthy(x) ==
    /\ x.t # "None"
    /\ (x.t = "str" => x.v # "")
    /\ (x.t = "int" => x.v # 0)
    /\ (x.t = "list" => x.v # <<>>)
    /\ (x.t = "bool" => x.v)

\* x or d
PyOr(x, d) == IF Truthy(x) THEN x ELSE d

\* dict.get(key)
Get(d, key) == IF key \in DOMAIN d THEN d[key] ELSE PyNone

Min(a, b) == IF a < b THEN a ELSE b

RECURSIVE Concat(_)
Concat(ss) == IF ss = <<>> THEN <<>> ELSE Head(ss) \o Concat(Tail(ss))

RECURSIVE SelectBetween(_, _, _, _)
\* the elements of s at the positions lo..hi that are in the set keep
SelectBetween(s, lo, hi, keep) ==
    IF lo > hi THEN <<>>
    ELSE IF lo = hi THEN (IF lo \in keep THEN <<s[lo]>> ELSE <<>>)
    ELSE LET mid == (lo + hi) \div 2
         IN SelectBetween(s, lo, mid, keep) \o SelectBetween(s, mid + 1, hi, keep)

\* the subsequence of s whose positions are in the set keep
SelectSeqBy(s, keep) == SelectBetween(s, 1, Len(s), keep)

----------------------------------------------------------------------------
(* Module constants and the schema.                                        *)

UPSERT_BATCH_SIZE == 100

\* class Required: a marker object (truthy)
Required == [t |-> "Required"]

\* (name, dtype, default); the FieldSchema is kept as its dtype
SCHEMA == <<
    [name |-> "pk",          dtype |-> "INT64",        default |-> Required],
    [name |-> "embedding",   dtype |-> "FLOAT_VECTOR", default |-> Required],
    [name |-> "text",        dtype |-> "VARCHAR",      default |-> Required],
    [name |-> "document_id", dtype |-> "VARCHAR",      default |-> PyStr("")],
    [name |-> "source_id",   dtype |-> "VARCHAR",      default |-> PyStr("")],
    [name |-> "id",          dtype |-> "VARCHAR",      default |-> PyStr("")],
    [name |-> "source",      dtype |-> "VARCHAR",      default |-> PyStr("")],
    [name |-> "url",         dtype |-> "VARCHAR",      default |-> PyStr("")],
    [name |-> "created_at",  dtype |-> "INT64",        default |-> PyInt(-1)],
    [name |-> "author",      dtype |-> "VARCHAR",      default |-> PyStr("")] >>

\* [field[0] for field in SCHEMA[k:]] (k counted from 0, as in the code)
SchemaNamesFrom(k) == [i \in 1..(Len(SCHEMA) - k) |-> SCHEMA[i + k].name]

----------------------------------------------------------------------------
(* models.models and services.date, which the datastore imports.           *)

\* class Source(str, Enum): member name -> value
SourceMembers == [email |-> "email", file |-> "file", chat |-> "chat"]

Source(name) == PyEnum(name, SourceMembers[name])

\* to_unix_timestamp: a date string to its integer unix time
to_unix_timestamp(d) ==
    CASE d.v = "1970-01-01T00:00:00Z" -> 0
      [] d.v = "2023-01-01T00:00:00Z" -> 1672531200
      [] d.v = "2023-06-01T00:00:00Z" -> 1685577600

\* chunk.dict(): the chunk's fields as a dict, metadata as a nested dict
ChunkDict(chunk) ==
    [id |-> chunk.id, text |-> chunk.text, metadata |-> chunk.metadata,
     embedding |-> chunk.embedding]

----------------------------------------------------------------------------
(* _get_values                                                             *)

\* values.pop("metadata"); values.update(meta)
FlattenValues(values) ==
    LET meta == values.metadata
        keys == (DOMAIN values \ {"metadata"}) \cup DOMAIN meta
    IN [k \in keys |-> IF k \in DOMAIN meta THEN meta[k] ELSE values[k]]

\* if values["created_at"]: values["created_at"] = to_unix_timestamp(...)
ConvertCreatedAt(values) ==
    IF Truthy(values["created_at"])
    THEN [values EXCEPT !["created_at"] = PyInt(to_unix_timestamp(values["created_at"]))]
    ELSE values

\* if values["source"]: values["source"] = values["source"].value
ConvertSource(values) ==
    IF Truthy(values["source"])
    THEN [values EXCEPT !["source"] = PyStr(values["source"].v)]
    ELSE values

RECURSIVE CollectValues(_, _, _)
\* for key, _, default in SCHEMA[1:]: x = values.get(key) or default; ...
CollectValues(values, i, ret) ==
    IF i > Len(SCHEMA) THEN PyList(ret)
    ELSE LET x == PyOr(Get(values, SCHEMA[i].name), SCHEMA[i].default)
         IN IF x = Required THEN PyNone
            ELSE CollectValues(values, i + 1, Append(ret, x))

_get_values(chunk) ==
    CollectValues(ConvertSource(ConvertCreatedAt(FlattenValues(ChunkDict(chunk)))),
                  2, <<>>)

----------------------------------------------------------------------------
(* The Milvus collection (pymilvus Collection), as the code uses it.       *)

\* col.insert(columns): one row per position, the primary key generated
InsertedRows(m, batch) ==
    [j \in 1..Len(batch[1]) |->
        [f \in {SCHEMA[i].name : i \in 1..Len(SCHEMA)} |->
            IF f = "pk" THEN PyInt(m.next_pk + j - 1)
            ELSE batch[CHOOSE i \in 1..Len(batch) : SCHEMA[i + 1].name = f][j]]]

MilvusInsert(m, batch) ==
    [m EXCEPT !.rows = @ \o InsertedRows(m, batch),
              !.next_pk = @ + Len(batch[1])]

----------------------------------------------------------------------------
(* _upsert                                                                 *)

\* the chunks of every document, in encounter order
AllChunks(chunks) == Concat([i \in 1..Len(chunks) |-> chunks[i].value])

\* doc_ids as if the append were under "if list_of_data is not None"
DocIdsOfStored(chunks) ==
    LET has(i) == \E j \in 1..Len(chunks[i].value) :
                      _get_values(chunks[i].value[j]) # PyNone
    IN SelectSeqBy([i \in 1..Len(chunks) |-> PyStr(chunks[i].key)],
                   {i \in 1..Len(chunks) : has(i)})

\* doc_ids.append(doc_id) for every key
DocIds(chunks) == [i \in 1..Len(chunks) |-> PyStr(chunks[i].key)]

\* insert_data: one list per non-pk field, a value per chunk whose
\* _get_values is not None
\* list_of_data = self._get_values(chunk), for every chunk in turn
ListsOfData(all) == <<>> \o [j \in 1..Len(all) |-> _get_values(all[j])]

\* the positions of the chunks whose list_of_data is not None
KeptPositions(lists) == {j \in 1..Len(lists) : lists[j] # PyNone}

InsertData(chunks) ==
    LET lists == ListsOfData(AllChunks(chunks))
        kept == SelectSeqBy(lists, KeptPositions(lists))
    IN [x \in 1..(Len(SCHEMA) - 1) |-> [j \in 1..Len(kept) |-> kept[j].v[x]]]

\* the chunks that went into insert_data
KeptChunks(chunks) ==
    LET all == AllChunks(chunks)
    IN SelectSeqBy(all, KeptPositions(ListsOfData(all)))

\* [insert_data[i : i + UPSERT_BATCH_SIZE]
\*      for i in range(0, len(insert_data), UPSERT_BATCH_SIZE)]
Batches(insert_data) ==
    LET n == Len(insert_data)
        k == (n + UPSERT_BATCH_SIZE - 1) \div UPSERT_BATCH_SIZE
    IN [b \in 1..k |->
            SubSeq(insert_data, (b - 1) * UPSERT_BATCH_SIZE + 1,
                   Min(b * UPSERT_BATCH_SIZE, n))]

RECURSIVE InsertLoopSwallow(_, _, _, _, _)
\* InsertLoop as if the except clause did not raise again
InsertLoopSwallow(batches, b, m, log, failAt) ==
    IF b > Len(batches) THEN [milvus |-> m, calls |-> log, raised |-> FALSE]
    ELSE IF Len(batches[b][1]) = 0
         THEN InsertLoopSwallow(batches, b + 1, m, log, failAt)
    ELSE IF Len(log) + 1 = failAt
         THEN InsertLoopSwallow(batches, b + 1, m,
                  Append(log, [fn |-> "insert", data |-> batches[b],
                               raised |-> TRUE]),
                  failAt)
    ELSE InsertLoopSwallow(batches, b + 1, MilvusInsert(m, batches[b]),
                           Append(log, [fn |-> "insert", data |-> batches[b],
                                        raised |-> FALSE]),
                           failAt)

RECURSIVE InsertLoop(_, _, _, _, _)
\* for batch in batches: if len(batch[0]) != 0: self.col.insert(batch)
\* failAt: the number of the insert call the store raises in (0: none)
InsertLoop(batches, b, m, log, failAt) ==
    IF b > Len(batches) THEN [milvus |-> m, calls |-> log, raised |-> FALSE]
    ELSE IF Len(batches[b][1]) = 0
         THEN InsertLoop(batches, b + 1, m, log, failAt)
    ELSE IF Len(log) + 1 = failAt
         THEN [milvus |-> m,
               calls |-> Append(log, [fn |-> "insert", data |-> batches[b],
                                      raised |-> TRUE]),
               raised |-> TRUE]
    ELSE InsertLoop(batches, b + 1, MilvusInsert(m, batches[b]),
                    Append(log, [fn |-> "insert", data |-> batches[b],
                                 raised |-> FALSE]),
                    failAt)

Upsert(chunks, failAt) ==
    /\ pc = "ready"
    /\ LET r == InsertLoop(Batches(InsertData(chunks)), 1, milvus, <<>>, failAt)
       IN /\ failAt > 0 => \E k \in 1..Len(r.calls) : r.calls[k].raised
          /\ milvus' = r.milvus
          /\ calls' = r.calls
          /\ upserted' = upserted \o
                SubSeq(KeptChunks(chunks), 1, Len(r.milvus.rows) - Len(milvus.rows))
          /\ op' = [name |-> "upsert", chunks |-> chunks, before |-> milvus.rows,
                    ret |-> IF r.raised THEN PyRaise("MilvusException")
                            ELSE PyList(DocIds(chunks))]
    /\ UNCHANGED <<self, pc>>

----------------------------------------------------------------------------
(* _create_collection and the construction of the datastore.               *)

HNSW_PARAMS == [metric_type |-> "L2", index_type |-> "HNSW"]
AUTOINDEX_PARAMS == [metric_type |-> "L2", index_type |-> "AUTOINDEX"]

Call(fn) == [fn |-> fn]

\* utility.drop_collection / col.drop()
MilvusDrop(m) ==
    [m EXCEPT !.has_collection = FALSE, !.schema = <<>>, !.indexes = <<>>,
              !.loaded = FALSE, !.rows = <<>>]

\* col.create_index("embedding", index_params=p)
MilvusCreateIndex(m, p) ==
    [m EXCEPT !.indexes = Append(@, [field_name |-> "embedding", index_param |-> p])]

\* The result of _create_collection(create_new) on server m and object s:
\* the server, the object and the store calls made.
CreateCollection(m, s, create_new) ==
    LET dropFirst == m.has_collection /\ create_new
        m1 == IF dropFirst THEN MilvusDrop(m) ELSE m
        c1 == IF dropFirst THEN <<Call("drop_collection")>> ELSE <<>>
        \* Collection(MILVUS_COLLECTION, schema=schema, ...) creates it
        m2 == IF ~m1.has_collection
              THEN [m1 EXCEPT !.has_collection = TRUE,
                              !.schema = SchemaNamesFrom(0)]
              ELSE m1
        c2 == Append(c1, Call("Collection"))
        noIndex == Len(m2.indexes) = 0
        \* the default HNSW index raises MilvusException on Zilliz Cloud
        p == IF s.index_params # PyNone THEN s.index_params
             ELSE IF ~m2.zilliz THEN HNSW_PARAMS ELSE AUTOINDEX_PARAMS
        m3 == IF noIndex THEN MilvusCreateIndex(m2, p) ELSE m2
        c3 == IF ~noIndex THEN c2
              ELSE IF s.index_params = PyNone /\ m2.zilliz
                   THEN c2 \o <<[fn |-> "create_index", raised |-> TRUE],
                                [fn |-> "create_index", raised |-> FALSE]>>
              ELSE Append(c2, [fn |-> "create_index", raised |-> FALSE])
        s3 == [s EXCEPT !.index_params =
                  IF noIndex THEN p ELSE m2.indexes[1].index_param]
    IN [milvus |-> [m3 EXCEPT !.loaded = TRUE],
        self |-> s3,
        calls |-> Append(c3, Call("load"))]

\* A server with no collection yet.
BlankServer(zilliz) ==
    [has_collection |-> FALSE, schema |-> <<>>, indexes |-> <<>>,
     loaded |-> FALSE, rows |-> <<>>, next_pk |-> 1, zilliz |-> zilliz]

\* the index_params argument of __init__: None, or the caller's own
IndexParamsArgs == {PyNone, [metric_type |-> "L2", index_type |-> "IVF_FLAT"]}

\* MilvusCustomDataStore(create_new, index_params)
Construct(zilliz, create_new, index_params) ==
    CreateCollection(BlankServer(zilliz), [index_params |-> index_params], create_new)

Init ==
    \E zilliz \in BOOLEAN, ip \in IndexParamsArgs :
        LET c == Construct(zilliz, FALSE, ip)
        IN /\ milvus = c.milvus
           /\ self = c.self
           /\ pc = "ready"
           /\ phase = "new"
           /\ op = [name |-> "__init__"]
           /\ calls = c.calls
           /\ upserted = <<>>

----------------------------------------------------------------------------
(* _get_filter                                                             *)

\* the fields of DocumentMetadataFilter, in filter.dict() order
FilterFields == <<"document_id", "source_id", "source", "author",
                  "start_date", "end_date">>

Pred(field, cmp, lit) == [field |-> field, cmp |-> cmp, lit |-> lit]

\* FieldPredicate with end_date compared as start_date is
FieldPredicateSameCmp(field, value) ==
    IF field = "start_date" \/ field = "end_date"
    THEN Pred("created_at", ">=", PyInt(to_unix_timestamp(value)))
    ELSE IF field = "source"
    THEN Pred(field, "==", PyStr(PyToStr(PyStr(value.v))))
    ELSE Pred(field, "==", PyStr(PyToStr(value)))

\* the predicate line 459-473 appends for a field whose value is not None
FieldPredicate(field, value) ==
    IF field = "start_date"
    THEN Pred("created_at", ">=", PyInt(to_unix_timestamp(value)))
    ELSE IF field = "end_date"
    THEN Pred("created_at", "<=", PyInt(to_unix_timestamp(value)))
    ELSE IF field = "source"
    THEN Pred(field, "==", PyStr(PyToStr(PyStr(value.v))))
    ELSE Pred(field, "==", PyStr(PyToStr(value)))

RECURSIVE CompileFields(_, _, _)
CompileFields(filter, i, filters) ==
    IF i > Len(FilterFields) THEN filters
    ELSE LET field == FilterFields[i]
             value == filter[field]
         IN CompileFields(filter, i + 1,
                IF value # PyNone
                THEN Append(filters, FieldPredicate(field, value))
                ELSE filters)

\* " and ".join(filters): an expression is the list of its conjuncts, and
\* the empty string is the empty list
PyExpr(preds) == [t |-> "expr", preds |-> preds]

_get_filter(filter) == PyExpr(CompileFields(filter, 1, <<>>))

----------------------------------------------------------------------------
(* The collection's query, delete and search.                              *)

EvalPred(row, p) ==
    CASE p.cmp = "==" -> row[p.field] = p.lit
      [] p.cmp = ">=" -> row[p.field].v >= p.lit.v
      [] p.cmp = "<=" -> row[p.field].v <= p.lit.v
      [] p.cmp = "in" -> \E k \in 1..Len(p.lit.v) : row[p.field] = p.lit.v[k]

\* expr None or empty: no restriction (search only; query needs an expr)
Matches(row, expr) ==
    expr = PyNone \/ \A k \in 1..Len(expr.preds) : EvalPred(row, expr.preds[k])

\* col.query(expr): the matching rows
MilvusQuery(m, expr) ==
    SelectSeqBy(m.rows, {j \in 1..Len(m.rows) : Matches(m.rows[j], expr)})

\* col.delete(expr): the rows without the matching ones
MilvusDelete(m, expr) ==
    [m EXCEPT !.rows =
        SelectSeqBy(m.rows, {j \in 1..Len(m.rows) : ~Matches(m.rows[j], expr)})]

\* [str(entry["pk"]) for entry in res], joined into "pk in [...]"
PkExpr(entries) ==
    PyExpr(<<Pred("pk", "in", PyList([j \in 1..Len(entries) |-> entries[j].pk]))>>)

\* ['"' + str(id) + '"' for id in ids], joined into "document_id in [...]"
DocIdExpr(ids) ==
    PyExpr(<<Pred("document_id", "in",
                  PyList([j \in 1..Len(ids) |-> PyStr(PyToStr(ids[j]))]))>>)

----------------------------------------------------------------------------
(* delete                                                                  *)

\* One lookup-then-delete path (lines 412-420, and again 429-437): the
\* server and the call log after it.
DeletePath(st, expr) ==
    LET entries == MilvusQuery(st.milvus, expr)
        c1 == Append(st.calls, [fn |-> "query", expr |-> expr])
    IN IF Len(entries) # 0
       THEN [milvus |-> MilvusDelete(st.milvus, PkExpr(entries)),
             calls |-> Append(c1, [fn |-> "delete", expr |-> PkExpr(entries)])]
       ELSE [milvus |-> st.milvus, calls |-> c1]

\* lines 407-420
DeleteByIds(st, ids) ==
    IF ids # PyNone /\ Len(ids.v) # 0 THEN DeletePath(st, DocIdExpr(ids.v)) ELSE st

\* DeleteByFilter as if line 423 were an elif of line 407
DeleteByFilterElif(st, filter) ==
    IF st.calls = <<>> /\ filter # PyNone /\ Len(_get_filter(filter).preds) # 0
    THEN DeletePath(st, _get_filter(filter))
    ELSE st

\* DeleteByFilter without the test of line 427
DeleteByFilterAnyLength(st, filter) ==
    IF filter # PyNone
    THEN DeletePath(st, _get_filter(filter))
    ELSE st

\* lines 423-437
DeleteByFilter(st, filter) ==
    IF filter # PyNone /\ Len(_get_filter(filter).preds) # 0
    THEN DeletePath(st, _get_filter(filter))
    ELSE st

\* DeleteAll without line 400
DeleteAllDropOnly(m, s) ==
    [milvus |-> MilvusDrop([m EXCEPT !.loaded = FALSE]), self |-> s,
     calls |-> <<Call("release"), Call("drop")>>]

\* lines 394-401
DeleteAll(m, s) ==
    LET m1 == MilvusDrop([m EXCEPT !.loaded = FALSE])
        c == CreateCollection(m1, s, TRUE)
    IN [c EXCEPT !.calls = <<Call("release"), Call("drop")>> \o @]

Delete(ids, filter, delete_all) ==
    /\ pc = "ready"
    /\ IF Truthy(delete_all)
       THEN LET r == DeleteAll(milvus, self)
            IN /\ milvus' = r.milvus
               /\ self' = r.self
               /\ calls' = r.calls
       ELSE LET r == DeleteByFilter(
                        DeleteByIds([milvus |-> milvus, calls |-> <<>>], ids),
                        filter)
            IN /\ milvus' = r.milvus
               /\ calls' = r.calls
               /\ self' = self
    /\ op' = [name |-> "delete", ids |-> ids, filter |-> filter,
              delete_all |-> delete_all, before |-> milvus.rows, ret |-> PyTrue]
    /\ UNCHANGED <<pc, upserted>>

----------------------------------------------------------------------------
(* _query                                                                  *)

RECURSIVE L2(_, _)
\* the L2 metric of the index (squared distance)
L2(a, b) ==
    IF a = <<>> THEN 0
    ELSE (Head(a) - Head(b)) * (Head(a) - Head(b)) + L2(Tail(a), Tail(b))

RECURSIVE NearestFirst(_, _)
\* rows by distance to the vector, the older row first among equals
NearestFirst(rs, vec) ==
    IF rs = <<>> THEN <<>>
    ELSE LET d(j) == L2(rs[j].embedding.v, vec.v)
             best == CHOOSE j \in 1..Len(rs) :
                        \A k \in 1..Len(rs) : d(j) < d(k) \/ (d(j) = d(k) /\ j <= k)
         IN <<rs[best]>> \o NearestFirst(SelectSeqBy(rs, (1..Len(rs)) \ {best}), vec)

\* col.search(data=[vec], limit=limit, expr=expr, output_fields=...)[0]
MilvusSearch(m, vec, limit, expr, output_fields) ==
    LET near == NearestFirst(MilvusQuery(m, expr), vec)
        fields == {output_fields[i] : i \in 1..Len(output_fields)}
    IN [j \in 1..Min(limit, Len(near)) |->
            [score |-> PyInt(L2(near[j].embedding.v, vec.v)),
             entity |-> [f \in fields |-> near[j][f]]]]

\* DocumentChunkMetadata(**metadata): pydantic turns the source string into
\* the enum member with that value and the integer created_at into a string
DocumentChunkMetadata(md) ==
    [md EXCEPT
        !["source"] = IF @ = PyNone THEN PyNone
                      ELSE Source(CHOOSE n \in DOMAIN SourceMembers :
                                      SourceMembers[n] = @.v),
        !["created_at"] = IF @.t = "int" THEN PyStr(ToString(@.v)) ELSE @]

\* metadata["source"] not in Source.__members__
NotASource(x) == ~(x.t = "str" /\ x.v \in DOMAIN SourceMembers)

\* lines 350-368: one hit to one DocumentChunkWithScore
ChunkWithScore(hit) ==
    LET names == SchemaNamesFrom(2)
        metadata == [x \in {names[i] : i \in 1..Len(names)} |-> Get(hit.entity, x)]
        checked == IF NotASource(metadata["source"])
                   THEN [metadata EXCEPT !["source"] = PyNone]
                   ELSE metadata
        rest == [x \in DOMAIN checked \ {"text", "id"} |-> checked[x]]
    IN [id |-> checked["id"], score |-> hit.score, text |-> checked["text"],
        metadata |-> DocumentChunkMetadata(rest)]

\* Results as if a hit with an unknown source were skipped
ResultsOfKnownSources(hits) ==
    LET all == [j \in 1..Len(hits) |-> ChunkWithScore(hits[j])]
    IN SelectSeqBy(all, {j \in 1..Len(hits) : ~NotASource(hits[j].entity["source"])})

\* for hit in res[0]: ...; results.append(chunk)
Results(hits) == [j \in 1..Len(hits) |-> ChunkWithScore(hits[j])]

\* lines 328-333
QueryFilter(query) ==
    IF query.filter # PyNone THEN _get_filter(query.filter) ELSE PyNone

\* _single_query(query) when the search returns hits
SingleQuery(query, hits) ==
    [t |-> "QueryResult", query |-> query.query, results |-> Results(hits)]

\* Gather as if the results were collected as the tasks complete
GatherAsCompleted(tasks, order) ==
    IF \E i \in 1..Len(tasks) : tasks[i].t = "raise"
    THEN PyRaise("MilvusException")
    ELSE PyList([k \in 1..Len(order) |-> tasks[order[k]]])

\* Gather as with return_exceptions=True
GatherReturnExceptions(tasks, order) == PyList(tasks)

\* results = await asyncio.gather(*tasks): the tasks' results in the order
\* of the tasks, or the first exception a task ended with
Gather(tasks, order) ==
    IF \E i \in 1..Len(tasks) : tasks[i].t = "raise"
    THEN tasks[order[CHOOSE k \in 1..Len(order) :
                        /\ tasks[order[k]].t = "raise"
                        /\ \A l \in 1..(k - 1) : tasks[order[l]].t # "raise"]]
    ELSE PyList(tasks)

\* _query up to its await: one task per query
QueryStart(queries) ==
    /\ pc = "ready"
    /\ pc' = "gather"
    /\ op' = [name |-> "query", queries |-> queries, before |-> milvus.rows,
              tasks |-> [i \in 1..Len(queries) |-> PyNone], order |-> <<>>,
              ret |-> PyNone]
    /\ calls' = <<>>
    /\ UNCHANGED <<milvus, self, upserted>>

\* One task runs _single_query to its end (it never awaits); the search
\* raises or returns its hits.
QueryTask(i, fail) ==
    /\ pc = "gather"
    /\ i \in 1..Len(op.queries)
    /\ op.tasks[i] = PyNone
    /\ LET query == op.queries[i]
           expr == QueryFilter(query)
           hits == MilvusSearch(milvus, query.embedding, query.top_k, expr,
                                SchemaNamesFrom(2))
       IN /\ calls' = Append(calls,
                 [fn |-> "search", task |-> i, data |-> query.embedding,
                  limit |-> query.top_k, expr |-> expr, raised |-> fail,
                  hits |-> IF fail THEN <<>> ELSE hits])
          /\ op' = [op EXCEPT
                 !.tasks[i] = IF fail THEN PyRaise("MilvusException")
                              ELSE SingleQuery(query, hits),
                 !.order = Append(@, i)]
    /\ UNCHANGED <<milvus, self, pc, upserted>>

\* Every task has run; _query resumes with what gather gives it.
QueryReturn ==
    /\ pc = "gather"
    /\ \A i \in 1..Len(op.tasks) : op.tasks[i] # PyNone
    /\ pc' = "ready"
    /\ op' = [op EXCEPT !.ret = Gather(op.tasks, op.order)]
    /\ UNCHANGED <<milvus, self, calls, upserted>>

----------------------------------------------------------------------------
(* Inputs.                                                                 *)

\* the most chunks one upsert carries (the bulk inputs aside)
MaxChunks == 2

\* the most chunks the first upsert leaves in the collection
MaxStored == 3

DocKeys == {"d1", "d2"}

\* every field populated
KindFull ==
    [text |-> PyStr("alpha"), embedding |-> PyList(<<1>>),
     source_id |-> PyStr("s1"), source |-> Source("email"),
     url |-> PyStr("http://a"), created_at |-> PyStr("2023-01-01T00:00:00Z"),
     author |-> PyStr("ann")]

\* only the required fields
KindBare ==
    [text |-> PyStr("beta"), embedding |-> PyList(<<4>>),
     source_id |-> PyStr("s2"), source |-> PyNone, url |-> PyNone,
     created_at |-> PyNone, author |-> PyNone]

\* created at the epoch
KindEpoch ==
    [KindFull EXCEPT !.text = PyStr("gamma"), !.embedding = PyList(<<2>>),
                     !.source = Source("file"),
                     !.created_at = PyStr("1970-01-01T00:00:00Z")]

KindLate ==
    [KindFull EXCEPT !.text = PyStr("delta"), !.embedding = PyList(<<6>>),
                     !.source = Source("chat"),
                     !.created_at = PyStr("2023-06-01T00:00:00Z")]

KindNoText == [KindFull EXCEPT !.text = PyStr("")]

KindNoEmbedding == [KindBare EXCEPT !.embedding = PyNone]

ValidKinds == {KindFull, KindBare, KindEpoch, KindLate}
AllKinds == ValidKinds \cup {KindNoText, KindNoEmbedding}
StoredKinds == {KindFull, KindBare}

\* chunk i of document doc
MkChunk(doc, i, kind) ==
    [id |-> PyStr(doc \o "_" \o ToString(i)), text |-> kind.text,
     embedding |-> kind.embedding,
     metadata |-> [document_id |-> PyStr(doc), source_id |-> kind.source_id,
                   source |-> kind.source, url |-> kind.url,
                   created_at |-> kind.created_at, author |-> kind.author]]

ChunkList(doc, ks) == [i \in 1..Len(ks) |-> MkChunk(doc, i, ks[i])]

KindSeqs(kinds, n) == UNION {[1..k -> kinds] : k \in 0..n}

\* Dict[str, List[DocumentChunk]] in iteration order, at most n chunks in all
UpsertInputs(kinds, n) ==
    {<<>>}
    \cup {<<[key |-> d, value |-> ChunkList(d, ks)]>> :
            d \in DocKeys, ks \in KindSeqs(kinds, n)}
    \cup {<<[key |-> dd[1], value |-> ChunkList(dd[1], kk[1])],
            [key |-> dd[2], value |-> ChunkList(dd[2], kk[2])]>> :
            dd \in {x \in DocKeys \X DocKeys : x[1] # x[2]},
            kk \in {y \in KindSeqs(kinds, n) \X KindSeqs(kinds, n) :
                        Len(y[1]) + Len(y[2]) <= n}}

\* one document of n fully populated chunks, n around the batch size
BulkSizes == {UPSERT_BATCH_SIZE, UPSERT_BATCH_SIZE + 1, 2 * UPSERT_BATCH_SIZE + 1}

BulkInputs ==
    {<<[key |-> "d1", value |-> ChunkList("d1", [i \in 1..n |-> KindFull])]>> :
        n \in BulkSizes}

MkFilter(document_id, source_id, source, author, start_date, end_date) ==
    [t |-> "DocumentMetadataFilter", document_id |-> document_id,
     source_id |-> source_id, source |-> source, author |-> author,
     start_date |-> start_date, end_date |-> end_date]

Filters ==
    {MkFilter(d, si, so, a, sd, ed) :
        d \in {PyNone, PyStr("d1"), PyStr("d2")},
        si \in {PyNone, PyStr("s1")},
        so \in {PyNone, Source("email"), Source("chat")},
        a \in {PyNone, PyStr("ann")},
        sd \in {PyNone, PyStr("2023-01-01T00:00:00Z"), PyStr("2023-06-01T00:00:00Z")},
        ed \in {PyNone, PyStr("1970-01-01T00:00:00Z"), PyStr("2023-01-01T00:00:00Z")}}

SetFields(f) == {i \in 1..Len(FilterFields) : f[FilterFields[i]] # PyNone}

\* the filters delete and query are given: at most one field set, or a
\* document within a date range
FewFilters ==
    {f \in Filters : Cardinality(SetFields(f)) <= 1}
    \cup {MkFilter(PyStr("d1"), PyNone, PyNone, PyNone,
                   PyStr("2023-01-01T00:00:00Z"), PyNone)}

DeleteIds ==
    {PyNone, PyList(<<>>), PyList(<<PyStr("d1")>>),
     PyList(<<PyStr("d2"), PyStr("d1")>>), PyList(<<PyStr("d9")>>)}

MkQuery(query, embedding, top_k, filter) ==
    [query |-> query, embedding |-> embedding, top_k |-> top_k, filter |-> filter]

QueryFixtures ==
    {MkQuery("qa", PyList(<<1>>), 1, PyNone),
     MkQuery("qb", PyList(<<3>>), 3,
             MkFilter(PyStr("d1"), PyNone, PyNone, PyNone, PyNone, PyNone)),
     MkQuery("qc", PyList(<<5>>), 2,
             MkFilter(PyNone, PyNone, PyNone, PyNone, PyNone, PyNone))}

\* lists of distinct queries
QueryLists ==
    {qs \in UNION {[1..k -> QueryFixtures] : k \in 0..Cardinality(QueryFixtures)} :
        \A i, j \in 1..Len(qs) : i # j => qs[i] # qs[j]}

\* the filter with every field None
NoFieldFilter == MkFilter(PyNone, PyNone, PyNone, PyNone, PyNone, PyNone)

\* a query under the filter with every field None next to the same query
\* without a filter, in either order
FilterlessPairs ==
    UNION {{<<MkQuery("qe", e, k, NoFieldFilter), MkQuery("qn", e, k, PyNone)>>,
            <<MkQuery("qn", e, k, PyNone), MkQuery("qe", e, k, NoFieldFilter)>>} :
              e \in {PyList(<<1>>), PyList(<<5>>)}, k \in 1..2}

----------------------------------------------------------------------------
(* Specifications.                                                         *)

AnyInputs == UpsertInputs(AllKinds, MaxChunks) \cup BulkInputs

StoredInputs == UpsertInputs(StoredKinds, MaxStored)

DeleteFilters == {PyNone} \cup FewFilters

\* the second upsert is of one document
AgainInputs == {c \in UpsertInputs(StoredKinds, MaxChunks) : Len(c) = 1}

\* the store raises in any one of the insert calls, or in none
UpsertAny(chunks) ==
    \E failAt \in 0..Len(Batches(InsertData(chunks))) : Upsert(chunks, failAt)

\* One upsert of any input on a new datastore.
UpsertOnce ==
    /\ phase = "new"
    /\ phase' = "done"
    /\ \E chunks \in AnyInputs : UpsertAny(chunks)

SpecUpsert == Init /\ [][UpsertOnce]_vars

\* _get_filter on every filter.
GetFilter(filter) ==
    /\ phase = "new"
    /\ phase' = "done"
    /\ op' = [name |-> "_get_filter", filter |-> filter, ret |-> _get_filter(filter)]
    /\ UNCHANGED <<milvus, self, pc, calls, upserted>>

NextFilter == \E filter \in Filters : GetFilter(filter)

SpecFilter == Init /\ [][NextFilter]_vars

\* A first upsert fills the collection.
Load ==
    /\ phase = "new"
    /\ phase' = "loaded"
    /\ \E chunks \in StoredInputs : Upsert(chunks, 0)

UpsertAgain ==
    /\ phase = "loaded"
    /\ phase' = "done"
    /\ \E chunks \in AgainInputs : UpsertAny(chunks)

DeleteOnce ==
    /\ phase = "loaded"
    /\ phase' = "done"
    /\ \E ids \in DeleteIds, filter \in DeleteFilters,
          delete_all \in {PyNone, PyFalse, PyTrue} :
            Delete(ids, filter, delete_all)

\* A load, then one upsert or one delete.
Next == Load \/ UpsertAgain \/ DeleteOnce

Spec == Init /\ [][Next]_vars

QueryOnce ==
    /\ phase = "loaded"
    /\ phase' = "done"
    /\ \E queries \in QueryLists : QueryStart(queries)

RunTask ==
    /\ pc = "gather"
    /\ \E i \in 1..Len(op.queries), fail \in BOOLEAN : QueryTask(i, fail)
    /\ UNCHANGED phase

Return == QueryReturn /\ UNCHANGED phase

\* A load, then one query.
NextQuery == Load \/ QueryOnce \/ RunTask \/ Return

SpecQuery == Init /\ [][NextQuery]_vars

QueryPair ==
    /\ phase = "loaded"
    /\ phase' = "done"
    /\ \E queries \in FilterlessPairs : QueryStart(queries)

\* A load, then one delete or one query with and without the empty filter.
NextNoField == Load \/ DeleteOnce \/ QueryPair \/ RunTask \/ Return

SpecNoField == Init /\ [][NextNoField]_vars

----------------------------------------------------------------------------
(* Properties of _upsert.                                                  *)

\* the chunk has its required fields, text and embedding
HasRequired(chunk) == Truthy(chunk.text) /\ Truthy(chunk.embedding)

\* the chunks of the input that have their required fields, in order
Surviving(chunks) ==
    LET all == AllChunks(chunks)
    IN SelectSeqBy(all, {j \in 1..Len(all) : HasRequired(all[j])})

\* the rows an insert call carries
RowsOf(call) == Len(call.data[1])

CeilDiv(n, d) == (n + d - 1) \div d

\* column x of everything submitted, call after call
Submitted(x) == Concat([k \in 1..Len(calls) |-> calls[k].data[x]])

\* columns of SCHEMA[1:] by name
ColumnOf(name) == CHOOSE x \in 1..(Len(SCHEMA) - 1) : SCHEMA[x + 1].name = name

\* C1: an upsert whose chunks all have their required fields makes
\* ceil(N / 100) insert calls for its N chunks, none of more than 100 rows.
C1_InsertCallsCeil ==
    (/\ op.name = "upsert"
     /\ op.ret.t = "list"
     /\ \A j \in 1..Len(AllChunks(op.chunks)) : HasRequired(AllChunks(op.chunks)[j]))
    => /\ Len(calls) = CeilDiv(Len(AllChunks(op.chunks)), UPSERT_BATCH_SIZE)
       /\ \A k \in 1..Len(calls) : RowsOf(calls[k]) <= UPSERT_BATCH_SIZE

----------------------------------------------------------------------------
(* Properties of _get_filter.                                              *)

\* the predicate the filter compiler is to emit for a field that is set
DocumentedPredicate(field, value) ==
    CASE field = "start_date" ->
            [field |-> "created_at", cmp |-> ">=", lit |-> PyInt(to_unix_timestamp(value))]
      [] field = "end_date" ->
            [field |-> "created_at", cmp |-> "<=", lit |-> PyInt(to_unix_timestamp(value))]
      [] field = "source" ->
            [field |-> "source", cmp |-> "==", lit |-> PyStr(SourceMembers[value.name])]
      [] OTHER -> [field |-> field, cmp |-> "==", lit |-> value]

\* C3: the compiled expression has exactly one predicate for each field
\* that is set, of the documented form, joined by "and"; one field set gives
\* a single predicate and no field set gives the empty expression.
C3_OnePredicatePerField ==
    op.name = "_get_filter" =>
        LET preds == op.ret.preds
            set == SetFields(op.filter)
        IN /\ Len(preds) = Cardinality(set)
           /\ \A i \in set :
                Cardinality({k \in 1..Len(preds) :
                    preds[k] = DocumentedPredicate(FilterFields[i],
                                                   op.filter[FilterFields[i]])}) = 1
           /\ (set = {}) = (op.ret = PyExpr(<<>>))

\* a filter with only end_date set compiled to one predicate
C3_Witness ==
    /\ op.name = "_get_filter"
    /\ SetFields(op.filter) = {6}
    /\ Len(op.ret.preds) = 1
    /\ op.ret.preds[1].cmp = "<="

----------------------------------------------------------------------------
(* Properties of delete.                                                   *)

NonEmptyIds(ids) == ids # PyNone /\ Len(ids.v) # 0

NonEmptyFilter(f) == f # PyNone /\ SetFields(f) # {}

\* the row's document_id is one of ids
InIds(row, ids) ==
    NonEmptyIds(ids) /\ \E k \in 1..Len(ids.v) : ids.v[k] = row["document_id"]

\* the row satisfies every field the filter sets
FilterHolds(row, f) ==
    /\ NonEmptyFilter(f)
    /\ \A i \in SetFields(f) :
          EvalPred(row, DocumentedPredicate(FilterFields[i], f[FilterFields[i]]))

CallsTo(fn) == SelectSeqBy(calls, {k \in 1..Len(calls) : calls[k].fn = fn})

\* C5: delete(delete_all=True) returns True and leaves the collection in
\* place, empty, with the schema and an index on the embedding field; ids
\* and filter given with it cause no lookup and no delete by primary key.
C5_DeleteAll ==
    (op.name = "delete" /\ Truthy(op.delete_all)) =>
        /\ op.ret = PyTrue
        /\ milvus.has_collection
        /\ milvus.rows = <<>>
        /\ milvus.schema = SchemaNamesFrom(0)
        /\ Len(milvus.indexes) = 1
        /\ milvus.indexes[1].field_name = "embedding"
        /\ CallsTo("query") = <<>>
        /\ CallsTo("delete") = <<>>

\* delete_all with ids and a filter that both name stored rows
C5_Witness ==
    /\ op.name = "delete"
    /\ op.delete_all = PyTrue
    /\ \E j \in 1..Len(op.before) :
          InIds(op.before[j], op.ids) /\ FilterHolds(op.before[j], op.filter)
    /\ milvus.rows = <<>>
    /\ milvus.loaded

\* C6: delete without delete_all, given ids and/or a filter that is not
\* empty, looks up by ids first and by filter second, leaves exactly the
\* rows that are neither of a listed document nor matched by the filter,
\* unchanged, never deletes with an empty key list, and returns True.
C6_DeleteByIdsAndFilter ==
    (/\ op.name = "delete"
     /\ ~Truthy(op.delete_all)
     /\ (NonEmptyIds(op.ids) \/ NonEmptyFilter(op.filter))) =>
        /\ op.ret = PyTrue
        /\ milvus.rows =
              SelectSeqBy(op.before,
                  {j \in 1..Len(op.before) :
                      /\ ~InIds(op.before[j], op.ids)
                      /\ ~FilterHolds(op.before[j], op.filter)})
        /\ Len(CallsTo("query")) =
              (IF NonEmptyIds(op.ids) THEN 1 ELSE 0)
              + (IF NonEmptyFilter(op.filter) THEN 1 ELSE 0)
        /\ NonEmptyIds(op.ids) =>
              /\ calls[1].fn = "query"
              /\ calls[1].expr.preds[1].field = "document_id"
              /\ calls[1].expr.preds[1].cmp = "in"
        /\ \A k \in 1..Len(calls) :
              calls[k].fn = "delete" =>
                  /\ calls[k].expr.preds[1].field = "pk"
                  /\ Len(calls[k].expr.preds[1].lit.v) > 0

\* both paths found rows and deleted them, and a row is left
C6_Witness ==
    /\ op.name = "delete"
    /\ ~Truthy(op.delete_all)
    /\ Len(CallsTo("delete")) = 2
    /\ milvus.rows # <<>>
    /\ op.ret = PyTrue

----------------------------------------------------------------------------
(* Properties of upsert when the store raises.                             *)

\* the rows of the insert calls that did not raise
RowsTaken ==
    Concat([k \in 1..Len(calls) |->
                IF calls[k].raised THEN <<>> ELSE calls[k].data[ColumnOf("id")]])

\* C9: when the store raises in an insert, upsert raises and returns no
\* ids; the rows inserted before stay, the failing batch is not tried again
\* and no later batch is submitted.
C9_InsertFailurePropagates ==
    op.name = "upsert" =>
        /\ (\E k \in 1..Len(calls) : calls[k].raised) <=> op.ret.t = "raise"
        /\ \A k \in 1..Len(calls) : calls[k].raised => k = Len(calls)
        /\ Len(milvus.rows) = Len(op.before) + Len(RowsTaken)
        /\ SubSeq(milvus.rows, 1, Len(op.before)) = op.before
        /\ \A j \in 1..Len(RowsTaken) :
              milvus.rows[Len(op.before) + j]["id"] = RowsTaken[j]

\* an upsert on a filled collection raised
C9_Witness ==
    /\ op.name = "upsert"
    /\ op.ret.t = "raise"
    /\ calls[Len(calls)].raised
    /\ op.before # <<>>
    /\ milvus.rows = op.before

----------------------------------------------------------------------------
(* Properties of _query.                                                   *)

\* the search call task i made
SearchOf(i) == calls[CHOOSE k \in 1..Len(calls) : calls[k].task = i]

Ran(i) == op.tasks[i] # PyNone

Returned == pc = "ready" /\ op.name = "query"

\* the result holds the query text and the hits of the i-th query
OwnResult(result, i) ==
    /\ result.t = "QueryResult"
    /\ result.query = op.queries[i].query
    /\ Len(result.results) = Len(SearchOf(i).hits)
    /\ \A j \in 1..Len(result.results) :
          /\ result.results[j].id = SearchOf(i).hits[j].entity["id"]
          /\ result.results[j].score = SearchOf(i).hits[j].score

\* every field of the chunk is populated
Populated(chunk) ==
    /\ Truthy(chunk.id) /\ Truthy(chunk.text) /\ Truthy(chunk.embedding)
    /\ \A f \in DOMAIN chunk.metadata : Truthy(chunk.metadata[f])

\* C4: a chunk with all fields populated that upsert inserted and query
\* returns, under a filter on its document_id, comes back with the text, id
\* and metadata it was inserted with.
C4_RoundTrip ==
    (Returned /\ op.ret.t = "list") =>
        \A i \in 1..Len(op.queries) :
            \A j \in 1..Len(op.ret.v[i].results) :
                \A u \in 1..Len(upserted) :
                    LET q == op.queries[i]
                        r == op.ret.v[i].results[j]
                        c == upserted[u]
                    IN (/\ q.filter # PyNone
                        /\ q.filter.document_id = c.metadata.document_id
                        /\ r.id = c.id
                        /\ Populated(c))
                       => /\ r.text = c.text
                          /\ r.id = c.id
                          /\ r.metadata = c.metadata

\* C7: query returns one result per query, result i holding the text and
\* the hits of query i, in whatever order the searches completed; no
\* queries give the empty list.
C7_ResultsInInputOrder ==
    (Returned /\ \A i \in 1..Len(op.queries) : op.tasks[i].t # "raise") =>
        /\ op.ret.t = "list"
        /\ Len(op.ret.v) = Len(op.queries)
        /\ \A i \in 1..Len(op.queries) : OwnResult(op.ret.v[i], i)
        /\ op.queries = <<>> => op.ret = PyList(<<>>)

\* three searches completed out of input order, with different hits
C7_Witness ==
    /\ Returned
    /\ op.ret.t = "list"
    /\ Len(op.ret.v) = 3
    /\ op.order = <<3, 1, 2>>
    /\ Len(op.ret.v[1].results) = 1
    /\ Len(op.ret.v[2].results) = 2
    /\ op.ret.v[2].results[1].id # op.ret.v[1].results[1].id

\* C8: every hit gives exactly one result; a hit whose source is no member
\* of Source gives a result with metadata.source None.
C8_UnknownSourceIsNone ==
    op.name = "query" =>
        \A i \in 1..Len(op.queries) :
            (Ran(i) /\ ~SearchOf(i).raised) =>
                /\ op.tasks[i].t = "QueryResult"
                /\ Len(op.tasks[i].results) = Len(SearchOf(i).hits)
                /\ \A j \in 1..Len(SearchOf(i).hits) :
                      LET hit == SearchOf(i).hits[j]
                          r == op.tasks[i].results[j]
                      IN /\ r.id = hit.entity["id"]
                         /\ r.text = hit.entity["text"]
                         /\ hit.entity["source"].v \notin
                                {SourceMembers[n] : n \in DOMAIN SourceMembers}
                              => r.metadata["source"] = PyNone

\* a hit stored without a source came back, next to one with a source
C8_Witness ==
    /\ Returned
    /\ op.ret.t = "list"
    /\ \E i \in 1..Len(op.queries) :
          /\ Len(SearchOf(i).hits) = 2
          /\ SearchOf(i).hits[1].entity["source"] = PyStr("")
          /\ op.ret.v[i].results[1].metadata["source"] = PyNone
          /\ op.ret.v[i].results[2].metadata["source"] = Source("email")

\* C10 as claimed: a failing search is reported for its query only, and the
\* caller has the results of the other queries.
C10_FailureConfinedToQuery ==
    Returned =>
        \A i \in 1..Len(op.queries) :
            ~SearchOf(i).raised => (op.ret.t = "list" /\ OwnResult(op.ret.v[i], i))

\* C10 as the code has it: the task of the failing search, and no other,
\* ends with the exception; every other task completes with the hits of its
\* own query; and query itself raises that exception to its caller instead
\* of returning any result.
C10_FailureFailsTheCall ==
    op.name = "query" =>
        /\ \A i \in 1..Len(op.queries) :
              Ran(i) =>
                  /\ SearchOf(i).raised <=> op.tasks[i].t = "raise"
                  /\ ~SearchOf(i).raised => OwnResult(op.tasks[i], i)
        /\ Returned =>
              /\ \A i \in 1..Len(op.queries) : Ran(i)
              /\ (\E i \in 1..Len(op.queries) : SearchOf(i).raised)
                    <=> op.ret.t = "raise"
              /\ op.ret.t # "raise" =>
                    \A i \in 1..Len(op.queries) : OwnResult(op.ret.v[i], i)

\* the second of three searches raised; the others found their rows
C10_Witness ==
    /\ Returned
    /\ Len(op.queries) = 3
    /\ op.tasks[2].t = "raise"
    /\ op.tasks[1].t = "QueryResult" /\ op.tasks[1].results # <<>>
    /\ op.tasks[3].t = "QueryResult" /\ op.tasks[3].results # <<>>
    /\ op.ret.t = "raise"

----------------------------------------------------------------------------
(* Properties of the filter with no field set.                             *)

AllAbsent(f) == f # PyNone /\ SetFields(f) = {}

C11_DeleteWitness ==
    /\ op.name = "delete"
    /\ AllAbsent(op.filter)
    /\ op.ids = PyList(<<>>)
    /\ op.delete_all = PyFalse
    /\ op.before # <<>>
    /\ calls = <<>>
    /\ milvus.rows = op.before
    /\ op.ret = PyTrue

====
